---- MODULE Spec2Model ----
(***************************************************************************)
(* AlbumTrackFinder: a React component holding an API key, an artist and   *)
(* an album, which asks a text-generation provider for the album's track   *)
(* list and parses the reply into numbered tracks.                         *)
(*                                                                         *)
(* A string is a sequence of characters.  A character is a one-character   *)
(* string; a longer string used as a character stands for a run of text    *)
(* that holds no digit, no period, no line break and no white space at     *)
(* its ends (a word, a title, one of the two phrases the code looks for).  *)
(***************************************************************************)
EXTENDS Integers, Sequences, FiniteSets

VARIABLES apiKey, artist, album, tracks, loading, error, pending, requests, last

vars == <<apiKey, artist, album, tracks, loading, error, pending, requests, last>>

(***************************************************************************)
(* Bounds.                                                                 *)
(***************************************************************************)
\* longest provider text enumerated character by character
MaxTextLen == 5
\* longest text enumerated before and after the sentinel sentence
MaxWrapLen == 1
\* lookups that pass validation in one session
MaxLookups == 3

(***************************************************************************)
(* Characters and JavaScript's string functions.                           *)
(***************************************************************************)
DontHaveInformation == "don't have information"

DontKnow == "don't know"

Digits == {"0", "1", "2", "3", "4", "5", "6", "7", "8", "9"}

\* the characters the enumerated provider texts are made of
Chars == {"0", "5", ".", " ", "\n", "a", DontHaveInformation, DontKnow}

\* \s, and what String.prototype.trim strips
IsSpace(c) == c \in {" ", "\n", "\t", "\r"}

\* \d
IsDigit(c) == c \in Digits

\* the regular expression's dot: any character but a line terminator
IsDot(c) == c \notin {"\n", "\r"}

Min(S) == CHOOSE x \in S : \A y \in S : x <= y

Max(S) == CHOOSE x \in S : \A y \in S : x >= y

\* String.prototype.trim
trim(s) ==
  LET keep == {i \in 1..Len(s) : ~IsSpace(s[i])}
  IN  IF keep = {} THEN <<>> ELSE SubSeq(s, Min(keep), Max(keep))

\* String.prototype.includes
includes(s, phrase) ==
  \E i \in 0..(Len(s) - Len(phrase)) : SubSeq(s, i + 1, i + Len(phrase)) = phrase

\* String.prototype.split('\n')
RECURSIVE split(_)
split(s) ==
  LET nl == {i \in 1..Len(s) : s[i] = "\n"}
  IN  IF nl = {} THEN <<s>>
      ELSE <<SubSeq(s, 1, Min(nl) - 1)>> \o split(SubSeq(s, Min(nl) + 1, Len(s)))

DigitValue(c) ==
  CASE c = "0" -> 0 [] c = "1" -> 1 [] c = "2" -> 2 [] c = "3" -> 3 [] c = "4" -> 4
    [] c = "5" -> 5 [] c = "6" -> 6 [] c = "7" -> 7 [] c = "8" -> 8 [] c = "9" -> 9

\* parseInt(digits, 10) of a non-empty string of digits
RECURSIVE parseInt(_)
parseInt(ds) ==
  IF ds = <<>> THEN 0
  ELSE 10 * parseInt(SubSeq(ds, 1, Len(ds) - 1)) + DigitValue(ds[Len(ds)])

\* trimmedLine.match(/^(\d+)\.\s*(.+)$/): \d+ and \s* are greedy and give back
\* characters only as far as the rest of the pattern needs
match(s) ==
  LET nonDigit == {i \in 1..Len(s) : ~IsDigit(s[i])}
      d    == IF nonDigit = {} THEN Len(s) ELSE Min(nonDigit) - 1
      rest == SubSeq(s, d + 2, Len(s))
      nonSpace == {i \in 1..Len(rest) : ~IsSpace(rest[i])}
      w    == IF nonSpace = {} THEN Len(rest) ELSE Min(nonSpace) - 1
      ks   == {k \in 0..w : /\ k < Len(rest)
                             /\ \A i \in (k + 1)..Len(rest) : IsDot(rest[i])}
  IN  IF d >= 1 /\ d < Len(s) /\ s[d + 1] = "." /\ ks # {}
      THEN [matched |-> TRUE, g1 |-> SubSeq(s, 1, d),
            g2 |-> SubSeq(rest, Max(ks) + 1, Len(rest))]
      ELSE [matched |-> FALSE, g1 |-> <<>>, g2 |-> <<>>]

\* the callback of .map((line, index) => ...)
parseLineByRank(line, index) ==
  LET trimmedLine == trim(line)
      m == match(trimmedLine)
  IN  IF m.matched
      THEN [number |-> index + 1, name |-> trim(m.g2)]
      ELSE [number |-> index + 1, name |-> trimmedLine]

parseLineFromZero(line, index) ==
  LET trimmedLine == trim(line)
      m == match(trimmedLine)
  IN  IF m.matched
      THEN [number |-> parseInt(m.g1), name |-> trim(m.g2)]
      ELSE [number |-> index, name |-> trimmedLine]

parseLine(line, index) ==
  LET trimmedLine == trim(line)
      m == match(trimmedLine)
  IN  IF m.matched
      THEN [number |-> parseInt(m.g1), name |-> trim(m.g2)]
      ELSE [number |-> index + 1, name |-> trimmedLine]

\* text.split('\n').filter(line => line.trim()).map(...).filter(track => track.name.length > 0)
trackList(text) ==
  LET lines  == SelectSeq(split(text), LAMBDA line : trim(line) # <<>>)
      mapped == [i \in 1..Len(lines) |-> parseLine(lines[i], i - 1)]
  IN  SelectSeq(mapped, LAMBDA track : Len(track.name) > 0)

hasSentinelOnlyDontKnow(text) == includes(text, <<DontKnow>>)

\* text.includes("don't have information") || text.includes("don't know")
hasSentinel(text) ==
  includes(text, <<DontHaveInformation>>) \/ includes(text, <<DontKnow>>)

(***************************************************************************)
(* The provider's response body.  An optional value is <<>> (undefined or  *)
(* null) or <<v>>; an array is a sequence.                                 *)
(***************************************************************************)
None == <<>>

Some(v) == <<v>>

\* array[0]
First(array) == IF Len(array) >= 1 THEN Some(array[1]) ELSE None

Part(text) == [text |-> text]

Candidate(content) == [content |-> content]

Content(parts) == [parts |-> parts]

Body(candidates) == [candidates |-> candidates]

\* a well-formed response carrying text
OkBody(text) ==
  Body(Some(<<Candidate(Some(Content(Some(<<Part(Some(text))>>))))>>))

TypeErrorMessage == "Cannot read properties of undefined"

extractTextLenient(data) ==
  LET c0 == IF data.candidates = None THEN None ELSE First(data.candidates[1])
  IN  IF c0 = None \/ c0[1].content = None \/ c0[1].content[1].parts = None
      THEN [threw |-> FALSE, text |-> <<>>]
      ELSE LET p0 == First(c0[1].content[1].parts[1])
           IN  IF p0 = None \/ p0[1].text = None
               THEN [threw |-> FALSE, text |-> <<>>]
               ELSE [threw |-> FALSE, text |-> p0[1].text[1]]

\* data.candidates[0]?.content?.parts[0]?.text || ''
\* An optional chain that meets undefined yields undefined for the whole rest of
\* the chain; an index or property read of undefined outside one throws.
extractText(data) ==
  IF data.candidates = None
  THEN [threw |-> TRUE, text |-> <<>>]
  ELSE LET c0 == First(data.candidates[1])
       IN  IF c0 = None \/ c0[1].content = None
           THEN [threw |-> FALSE, text |-> <<>>]
           ELSE IF c0[1].content[1].parts = None
           THEN [threw |-> TRUE, text |-> <<>>]
           ELSE LET p0 == First(c0[1].content[1].parts[1])
                IN  IF p0 = None \/ p0[1].text = None
                    THEN [threw |-> FALSE, text |-> <<>>]
                    ELSE [threw |-> FALSE, text |-> p0[1].text[1]]

(***************************************************************************)
(* Messages.                                                               *)
(***************************************************************************)
ApiKeyMissing == "Please enter your Gemini API key"

FieldsMissing == "Please enter both artist and album name"

AlbumNotFound == "Album not found. Please check the artist and album name."

FetchFailed == "Failed to fetch from Gemini API. Please check your API key."

GenericError == "An error occurred while fetching tracks"

\* err.message || 'An error occurred while fetching tracks'
catchMessage(message) == IF message = "" THEN GenericError ELSE message

(***************************************************************************)
(* What the user can type and what the provider can answer.                *)
(***************************************************************************)
\* a field left empty, holding only white space, or filled in
FieldValues == {<<>>, <<" ">>, <<"a">>}

Keys == {"Enter", "a"}

AllTexts(n) == UNION {[1..k -> Chars] : k \in 0..n}

\* "I don't have information about this album."
SentinelSentence ==
  <<"I", " ", DontHaveInformation, " ", "about this album", ".">>

ComeTogether ==
  <<"1", ".", " ", "Come Together", "\n", "2", ".", " ", "Something", "\n",
    "3", ".", " ", "Maxwell's Silver Hammer">>

Unnumbered == <<"Come Together", "\n", "Something">>

NumberOnly == <<"1", ".", " ", "\n", "2", ".", " ", "Something">>

MixedNumbering == <<"5", ".", " ", "Track Five", "\n", "Track Six">>

IntroZero == <<"0", ".", " ", "Intro", "\n", "1", ".", " ", "Song">>

SentinelAmongLines ==
  <<"1", ".", " ", "Song", "\n">> \o SentinelSentence \o <<"\n", "2", ".", " ", "Other">>

Examples ==
  {ComeTogether, Unnumbered, NumberOnly, MixedNumbering, IntroZero, SentinelAmongLines}

\* the replies a single lookup is checked against
LookupTexts ==
  AllTexts(MaxTextLen)
    \cup {pre \o SentinelSentence \o post : pre, post \in AllTexts(MaxWrapLen)}
    \cup Examples

\* the replies of a whole session
SessionTexts == {<<>>, <<"5", ".", " ", "a">>, SentinelSentence}

\* response bodies: without candidates, with none, with a candidate that lacks
\* content, parts, a first part or its text, and well-formed ones
SessionBodies ==
  {Body(None), Body(Some(<<>>)), Body(Some(<<Candidate(None)>>)),
   Body(Some(<<Candidate(Some(Content(None)))>>)),
   Body(Some(<<Candidate(Some(Content(Some(<<>>))))>>)),
   Body(Some(<<Candidate(Some(Content(Some(<<Part(None)>>))))>>))}
    \cup {OkBody(t) : t \in SessionTexts}

\* err.message of a rejected fetch
RejectMessages == {"Failed to fetch", ""}

SyntaxErrorMessage == "Unexpected end of JSON input"

(***************************************************************************)
(* The component.  pending counts the invocations of fetchTracks that are  *)
(* suspended at `await fetch(...)` and at `await response.json()`;         *)
(* requests counts the calls of fetch; last records the latest step.       *)
(***************************************************************************)
Step(op, why, data, text) == [op |-> op, why |-> why, data |-> data, text |-> text]

Did(op) == Step(op, "", Body(None), <<>>)

Init ==
  /\ apiKey = <<>>
  /\ artist = <<>>
  /\ album = <<>>
  /\ tracks = <<>>
  /\ loading = FALSE
  /\ error = ""
  /\ pending = [fetch |-> 0, json |-> 0]
  /\ requests = 0
  /\ last = Did("init")

\* onChange of the three inputs
setApiKey(v) ==
  /\ apiKey' = v
  /\ last' = Did("edit")
  /\ UNCHANGED <<artist, album, tracks, loading, error, pending, requests>>

setArtist(v) ==
  /\ artist' = v
  /\ last' = Did("edit")
  /\ UNCHANGED <<apiKey, album, tracks, loading, error, pending, requests>>

setAlbum(v) ==
  /\ album' = v
  /\ last' = Did("edit")
  /\ UNCHANGED <<apiKey, artist, tracks, loading, error, pending, requests>>

validationErrorUntrimmed(key, ar, al) ==
  IF key = <<>> THEN ApiKeyMissing
  ELSE IF ar = <<>> \/ al = <<>> THEN FieldsMissing
  ELSE ""

\* the two checks that open fetchTracks: the message to show, "" to go on
validationError(key, ar, al) ==
  IF trim(key) = <<>> THEN ApiKeyMissing
  ELSE IF trim(ar) = <<>> \/ trim(al) = <<>> THEN FieldsMissing
  ELSE ""

\* fetchTracks up to its first await
fetchTracks ==
  LET message == validationError(apiKey, artist, album)
  IN  IF message # ""
      THEN /\ error' = message
           /\ last' = Did("rejected")
           /\ UNCHANGED <<apiKey, artist, album, tracks, loading, pending, requests>>
      ELSE /\ requests < MaxLookups
           /\ loading' = TRUE
           /\ error' = ""
           /\ tracks' = <<>>
           /\ pending' = [pending EXCEPT !.fetch = @ + 1]
           /\ requests' = requests + 1
           /\ last' = Did("requested")
           /\ UNCHANGED <<apiKey, artist, album>>

\* the Find Tracks button: onClick={fetchTracks} disabled={loading}
clickFindTracks ==
  /\ ~loading
  /\ fetchTracks

\* onKeyPress of the three inputs
handleKeyPress(key) ==
  IF key = "Enter" THEN fetchTracks ELSE UNCHANGED vars

\* catch (err) { setError(...) } finally { setLoading(false) }
caught(message, why, data) ==
  /\ error' = catchMessage(message)
  /\ loading' = FALSE
  /\ last' = Step("settled", why, data, <<>>)
  /\ UNCHANGED <<apiKey, artist, album, tracks, requests>>

\* fetch rejects: the network failed
fetchRejects(message) ==
  /\ pending.fetch > 0
  /\ pending' = [pending EXCEPT !.fetch = @ - 1]
  /\ caught(message, "rejected", Body(None))

\* fetch resolves with a response that is not ok: fetchTracks throws
fetchResolvesNotOk ==
  /\ pending.fetch > 0
  /\ pending' = [pending EXCEPT !.fetch = @ - 1]
  /\ caught(FetchFailed, "notOk", Body(None))

\* fetch resolves with an ok response: fetchTracks awaits response.json()
fetchResolvesOk ==
  /\ pending.fetch > 0
  /\ pending' = [pending EXCEPT !.fetch = @ - 1, !.json = @ + 1]
  /\ last' = Did("response")
  /\ UNCHANGED <<apiKey, artist, album, tracks, loading, error, requests>>

\* response.json() rejects: the body is not JSON
jsonRejects ==
  /\ pending.json > 0
  /\ pending' = [pending EXCEPT !.json = @ - 1]
  /\ caught(SyntaxErrorMessage, "badJson", Body(None))

\* response.json() resolves: the rest of fetchTracks runs
jsonResolves(data) ==
  /\ pending.json > 0
  /\ pending' = [pending EXCEPT !.json = @ - 1]
  /\ LET x == extractText(data)
     IN  IF x.threw
         THEN caught(TypeErrorMessage, "threw", data)
         ELSE /\ IF hasSentinel(x.text)
                 THEN /\ error' = AlbumNotFound
                      /\ UNCHANGED tracks
                 ELSE /\ tracks' = trackList(x.text)
                      /\ UNCHANGED error
              /\ loading' = FALSE
              /\ last' = Step("settled", "text", data, x.text)
              /\ UNCHANGED <<apiKey, artist, album, requests>>

(***************************************************************************)
(* A session: any edits, clicks, key presses and provider answers.         *)
(***************************************************************************)
Next ==
  \/ \E v \in FieldValues : setApiKey(v)
  \/ \E v \in FieldValues : setArtist(v)
  \/ \E v \in FieldValues : setAlbum(v)
  \/ clickFindTracks
  \/ \E key \in Keys : handleKeyPress(key)
  \/ \E message \in RejectMessages : fetchRejects(message)
  \/ fetchResolvesNotOk
  \/ fetchResolvesOk
  \/ jsonRejects
  \/ \E data \in SessionBodies : jsonResolves(data)

Spec == Init /\ [][Next]_vars

(***************************************************************************)
(* One lookup: the form is filled in, fetchTracks is called once and the   *)
(* provider answers with any of LookupTexts.                               *)
(***************************************************************************)
LookupNext ==
  \/ /\ requests = 0
     /\ \/ \E v \in FieldValues : setApiKey(v)
        \/ \E v \in FieldValues : setArtist(v)
        \/ \E v \in FieldValues : setAlbum(v)
        \/ clickFindTracks
        \/ \E key \in Keys : handleKeyPress(key)
  \/ fetchResolvesOk
  \/ /\ pending.json > 0
     /\ \E text \in LookupTexts : jsonResolves(OkBody(text))

SpecLookup == Init /\ [][LookupNext]_vars

(***************************************************************************)
(* Vocabulary of the properties.                                           *)
(***************************************************************************)
\* a lookup has just ended with text extracted from the response
SettledWithText == last.op = "settled" /\ last.why = "text"

\* neither phrase the classification looks for occurs in the text
NoSentinelPhrase(text) ==
  \A i \in 1..Len(text) : text[i] \notin {DontHaveInformation, DontKnow}

\* the lines of the text that are not blank, trimmed, in order
RetainedLines(text) ==
  LET lines == split(text)
      kept  == SelectSeq(lines, LAMBDA l : \E i \in 1..Len(l) : ~IsSpace(l[i]))
  IN  [i \in 1..Len(kept) |-> trim(kept[i])]

\* the line starts with d digits and a period
PrefixAt(line, d) ==
  /\ d \in 1..(Len(line) - 1)
  /\ \A i \in 1..d : IsDigit(line[i])
  /\ line[d + 1] = "."

HasNumberPrefix(line) == \E d \in 1..Len(line) : PrefixAt(line, d)

\* what follows the d digits and the period
Remainder(line, d) == SubSeq(line, d + 2, Len(line))

\* <digits>.<optional white space><remainder>
NumberedAt(line, d) == PrefixAt(line, d) /\ trim(Remainder(line, d)) # <<>>

\* digits, a period and optional white space, and nothing else
NumberingArtifact(line) ==
  \E d \in 1..Len(line) : PrefixAt(line, d) /\ trim(Remainder(line, d)) = <<>>

RECURSIVE Power10(_)
Power10(n) == IF n = 0 THEN 1 ELSE 10 * Power10(n - 1)

RECURSIVE SumOver(_, _)
SumOver(S, f) ==
  IF S = {} THEN 0
  ELSE LET x == CHOOSE y \in S : TRUE IN f[x] + SumOver(S \ {x}, f)

\* the integer the first d characters of the line write in decimal
WrittenInteger(line, d) ==
  SumOver(1..d, [i \in 1..d |-> DigitValue(line[i]) * Power10(d - i)])

Track(number, name) == [number |-> number, name |-> name]

\* a field that is empty once trimmed
Blank(field) == \A i \in 1..Len(field) : IsSpace(field[i])

InFlight == pending.fetch + pending.json

(***************************************************************************)
(* C1.  A provider text that contains the sentinel sentence, whatever      *)
(* surrounds it, is classified as not found: the 'Album not found' error   *)
(* is set, the track list is empty and no line of the text became a track. *)
(***************************************************************************)
C1_SentinelIsNotFound ==
  (SettledWithText /\ includes(last.text, SentinelSentence))
    => (error = AlbumNotFound /\ tracks = <<>>)

C1_Witness ==
  /\ SettledWithText
  /\ last.text = SentinelAmongLines
  /\ error = AlbumNotFound
  /\ tracks = <<>>

(***************************************************************************)
(* C2.  Without a sentinel phrase, every non-blank line of the form        *)
(* <digits>.<optional white space><remainder> yields, at its own place in  *)
(* the list, the track whose position is the integer written in the line   *)
(* and whose name is the trimmed remainder.                                *)
(***************************************************************************)
C2_NumberedLines ==
  (SettledWithText /\ NoSentinelPhrase(last.text))
    => LET lines == RetainedLines(last.text)
       IN  /\ Len(tracks) = Len(lines)
           /\ \A i \in 1..Len(lines) : \A d \in 1..Len(lines[i]) :
                NumberedAt(lines[i], d)
                  => tracks[i] = Track(WrittenInteger(lines[i], d),
                                       trim(Remainder(lines[i], d)))

C2_Witness ==
  /\ SettledWithText
  /\ last.text = ComeTogether
  /\ tracks = <<Track(1, <<"Come Together">>), Track(2, <<"Something">>),
                Track(3, <<"Maxwell's Silver Hammer">>)>>

(***************************************************************************)
(* C3.  Without a sentinel phrase, a non-blank line with no leading        *)
(* <digits>. prefix yields the track whose position is the line's 1-based  *)
(* rank among the non-blank lines, which is its index in the list, and     *)
(* whose name is the whole trimmed line, whatever number earlier lines     *)
(* carry.                                                                  *)
(***************************************************************************)
C3_UnnumberedLines ==
  (SettledWithText /\ NoSentinelPhrase(last.text))
    => LET lines == RetainedLines(last.text)
       IN  /\ Len(tracks) = Len(lines)
           /\ \A i \in 1..Len(lines) :
                ~HasNumberPrefix(lines[i]) => tracks[i] = Track(i, lines[i])

C3_Witness ==
  /\ SettledWithText
  /\ last.text = MixedNumbering
  /\ tracks = <<Track(5, <<"Track Five">>), Track(2, <<"Track Six">>)>>

(***************************************************************************)
(* C4.  A line that is only a numbering artifact produces no track: the    *)
(* list holds one track per non-blank line that is not such an artifact,   *)
(* and "1. \n2. Something" yields exactly [{2, Something}].                *)
(***************************************************************************)
C4_ArtifactsDropped ==
  (SettledWithText /\ NoSentinelPhrase(last.text))
    => LET lines == RetainedLines(last.text)
       IN  /\ Len(tracks)
                = Cardinality({i \in 1..Len(lines) : ~NumberingArtifact(lines[i])})
           /\ last.text = NumberOnly => tracks = <<Track(2, <<"Something">>)>>

(***************************************************************************)
(* C5.  Every track in the track list has a position that is at least 1    *)
(* and a name that is not empty.                                           *)
(***************************************************************************)
C5_TracksWellFormed ==
  \A i \in 1..Len(tracks) : tracks[i].number >= 1 /\ tracks[i].name # <<>>

(***************************************************************************)
(* C6.  A call of fetchTracks while the API key, the artist or the album   *)
(* is empty after trimming sets a validation error and sends nothing: no   *)
(* request is issued and the loading flag is not touched.                  *)
(***************************************************************************)
C6_EmptyFieldsSendNothing ==
  [][(/\ last'.op \in {"rejected", "requested"}
      /\ Blank(apiKey) \/ Blank(artist) \/ Blank(album))
       => /\ last'.op = "rejected"
          /\ error' \in {ApiKeyMissing, FieldsMissing}
          /\ requests' = requests
          /\ pending' = pending
          /\ loading' = loading]_vars

C6_Witness ==
  /\ last.op = "rejected"
  /\ apiKey = <<"a">> /\ artist = <<"a">> /\ album = <<" ">>
  /\ error = FieldsMissing
  /\ requests = 0
  /\ ~loading

(***************************************************************************)
(* C7.  At most one lookup is in flight: no request is issued while an     *)
(* earlier one has not settled.                                            *)
(***************************************************************************)
C7_OneLookupInFlight == InFlight <= 1

(***************************************************************************)
(* C8.  As claimed: a response that is not a success, and a success        *)
(* response from which no text can be extracted, end the lookup with a     *)
(* non-empty error message and an empty track list.                        *)
(***************************************************************************)
HasText(data) ==
  /\ data.candidates # None
  /\ data.candidates[1] # <<>>
  /\ data.candidates[1][1].content # None
  /\ data.candidates[1][1].content[1].parts # None
  /\ data.candidates[1][1].content[1].parts[1] # <<>>
  /\ data.candidates[1][1].content[1].parts[1][1].text # None
  /\ data.candidates[1][1].content[1].parts[1][1].text[1] # <<>>

\* the body has no candidates field, or its first candidate has content without parts
Unreadable(data) ==
  \/ data.candidates = None
  \/ /\ data.candidates[1] # <<>>
     /\ data.candidates[1][1].content # None
     /\ data.candidates[1][1].content[1].parts = None

C8_NoTextIsProviderError ==
  (/\ last.op = "settled"
   /\ last.why = "notOk" \/ (last.why \in {"threw", "text"} /\ ~HasText(last.data)))
    => (error # "" /\ tracks = <<>>)

(***************************************************************************)
(* C8, amended.  A response that is not a success, a body without a        *)
(* candidates field and a first candidate whose content has no parts end   *)
(* the lookup with a non-empty error message and no track stored.  Any     *)
(* other success response without text is read as the empty text: the      *)
(* empty track list is stored and no error is set.                         *)
(***************************************************************************)
C8_ProviderErrorOrEmptyText ==
  [][last'.op = "settled" =>
       /\ (last'.why = "notOk" \/ (last'.why \in {"threw", "text"} /\ Unreadable(last'.data)))
            => (error' # "" /\ tracks' = tracks /\ ~loading')
       /\ (last'.why \in {"threw", "text"} /\ ~HasText(last'.data) /\ ~Unreadable(last'.data))
            => (tracks' = <<>> /\ error' = error /\ ~loading')]_vars

C8_Witness ==
  /\ last.op = "settled"
  /\ last.why = "threw"
  /\ last.data = Body(None)
  /\ error = TypeErrorMessage
  /\ tracks = <<>>
  /\ ~loading

(***************************************************************************)
(* C9.  A lookup goes Idle -> Requesting -> outcome -> Idle: while a       *)
(* request is outstanding the component is loading and the track list is   *)
(* empty, and once every request has settled the loading flag is off.      *)
(***************************************************************************)
C9_RequestingUntilOutcome ==
  /\ InFlight > 0 => (loading /\ tracks = <<>>)
  /\ InFlight = 0 => ~loading

(***************************************************************************)
(* C10.  An error message and a non-empty track list are never shown       *)
(* together.                                                               *)
(***************************************************************************)
C10_ErrorOrTracks == error # "" => tracks = <<>>

====
